---- MODULE Spec2Model ----
(***************************************************************************)
(* Bus ticketing server: the booking commit / cancellation path of         *)
(* src/src/controllers/bookingController.js against the MongoDB            *)
(* collections "buses" and "bookings", and the in-memory seat-selection    *)
(* registry (activeSessions) of src/src/index.js.                          *)
(*                                                                         *)
(* Every handler is an async function: it runs to its next await without   *)
(* interruption (one event-loop turn), and other handlers, timers and the  *)
(* database run between its awaits.  One action of the model is one such   *)
(* turn together with the database operation it waited for.                *)
(* Time is counted in minutes.                                             *)
(***************************************************************************)
EXTENDS Integers, Sequences, FiniteSets, TLC

\* ------------------------------------------------------------------ bounds
NumRequests == 2      \* HTTP requests that arrive in one behaviour
NumSockets == 2       \* socket.io connections that are opened in one behaviour
MaxEvents == 2        \* events one socket sends in one behaviour
MaxTime == 2          \* the clock stops here (minutes)

\* --------------------------------------------------------- program constants
TotalSeatsStandard == 40      \* schedulingService.js:68
MinGeneratedAvailable == 10   \* schedulingService.js:69
DeadlineHours == 24           \* bookingController.js:107
RefundPercentage == 70        \* bookingController.js:108
MinutesPerHour == 60          \* bookingController.js:529
LockMinutes == 2              \* index.js:268, index.js:292

\* ------------------------------------------------------------------ universe
Buses == {"bus1"}
Requests == 1..NumRequests
Sockets == 1..NumSockets
PNRs == {"PNR1", "PNR2"}
NoValue == "undefined"
Times == 0..MaxTime

\* Departure times a generated bus can have relative to the clock's origin:
\* about to depart, 10 hours ahead, just over 24 hours ahead.
DepartureTimes == {1, 10 * MinutesPerHour, DeadlineHours * MinutesPerHour + 2}

\* The request bodies POST /api/bookings is tried with.  given names the fields
\* the body carries; passengers is the length of the passengers array and
\* selectedSeats the seat numbers of the selectedSeats array (seat numbers of a
\* 40-seat bus).  The last three are malformed: no contactInfo, fewer
\* passengers than seats, empty arrays.
BodyFields == {"busId", "passengers", "selectedSeats", "contactInfo"}
BookingBodies ==
  { [given |-> BodyFields, busId |-> "bus1", passengers |-> 2, selectedSeats |-> {1, 2}],
    [given |-> BodyFields, busId |-> "bus1", passengers |-> 2, selectedSeats |-> {2, 3}],
    [given |-> BodyFields, busId |-> "bus1", passengers |-> 2, selectedSeats |-> {3, 4}],
    [given |-> BodyFields \ {"contactInfo"}, busId |-> "bus1", passengers |-> 2,
     selectedSeats |-> {1, 2}],
    [given |-> BodyFields, busId |-> "bus1", passengers |-> 1, selectedSeats |-> {1, 2}],
    [given |-> BodyFields, busId |-> "bus1", passengers |-> 0, selectedSeats |-> {}] }

\* The booking an earlier run of the server may have left in the database.
EarlierBody ==
  [given |-> BodyFields, busId |-> "bus1", passengers |-> 8, selectedSeats |-> 11..18]

VARIABLES
  buses,      \* collection "buses": busId -> document
  bookings,   \* collection "bookings": sequence of documents in insertion order
  http,       \* the HTTP requests: request -> handler frame
  now,        \* the wall clock (minutes)
  activeSessions,  \* the Map activeSessions: busId -> session
  sockets,    \* the socket.io connections: socket id -> connection and handler frame
  granted,    \* history: the seat selections answered with success and not
              \* given up (deselect) or dropped (disconnect) since
  broadcast   \* what the last step of the registry or the clock sent to the
              \* rooms of the buses: a set of [event, busId, seats]

registryVars == <<activeSessions, sockets, granted, broadcast>>
vars == <<buses, bookings, http, now, activeSessions, sockets, granted, broadcast>>

\* ------------------------------------------------------------------ helpers
ActiveStatuses == {"confirmed", "pending"}

\* The frame of one HTTP request: the handler (kind), where it stands (pc), its
\* request data (req), what it has read so far (bus, booking), its answer
\* (response, detail), the requests that were running when it arrived and, for
\* history, whether a holder's unexpired selection was on a seat of the booking
\* when its transaction committed (softLocked).
Idle == [kind |-> "none", pc |-> "idle", req |-> NoValue, bus |-> NoValue,
         booking |-> NoValue, response |-> NoValue, detail |-> NoValue,
         arrivedDuring |-> {}, softLocked |-> FALSE]

\* an unexpired selection of a seat of seats is in the session of the bus
LiveLockOn(busId, seats) ==
  LET m == activeSessions[busId].selectedSeats
  IN  \E i \in 1..Len(m) : \E j \in 1..Len(m[i].seats) :
        m[i].seats[j].seatNumber \in seats /\ m[i].seats[j].expiresAt > now

\* bookingsCollection.find({busId, "selectedSeats.seatNumber": {$in: seatNumbers},
\*                          status: {$in: ["confirmed","pending"]}})
ExistingBookings(coll, busId, seatNumbers) ==
  { i \in 1..Len(coll) :
      /\ coll[i].busId = busId
      /\ coll[i].selectedSeats \cap seatNumbers # {}
      /\ coll[i].status \in ActiveStatuses }

\* existingBookings.flatMap(b => b.selectedSeats.map(s => s.seatNumber))
ConflictedSeats(coll, found) == UNION { coll[i].selectedSeats : i \in found }

\* bookingsCollection.findOne({pnr}): the first document with that pnr, 0 if none
FindByPnr(coll, pnr) ==
  IF \E i \in 1..Len(coll) : coll[i].pnr = pnr
  THEN CHOOSE i \in 1..Len(coll) :
         /\ coll[i].pnr = pnr
         /\ \A j \in 1..(i - 1) : coll[j].pnr # pnr
  ELSE 0

\* availableSeats of a generated bus: Math.floor(Math.random() * (totalSeats - 15)) + 10
GeneratedAvailable(totalSeats) ==
  MinGeneratedAvailable .. (MinGeneratedAvailable + totalSeats - 15 - 1)

InFlight(r) == http[r].pc \notin {"idle", "done"}

\* A request slot is taken in order (the slots are interchangeable).
CanArrive(r) ==
  /\ http[r].pc = "idle"
  /\ \A q \in 1..(r - 1) : http[q].pc # "idle"

Arrived(r, kind, req) ==
  [Idle EXCEPT !.kind = kind, !.req = req,
               !.arrivedDuring = { q \in Requests : InFlight(q) }]

\* res.status(..).json(..): the handler ends with this answer and its locals
\* are gone.
Respond(frame, response, detail) ==
  [frame EXCEPT !.pc = "done", !.response = response, !.detail = detail,
                !.booking = NoValue]

DeletedBus == [exists |-> FALSE, totalSeats |-> 0, availableSeats |-> 0, departureTime |-> 0]

\* ------------------------------------------------------------ createBooking
\* ObjectId.isValid(busId)
IsValidObjectId(busId) == busId # "not-an-object-id"

\* bus.price of the generated bus (schedulingService.js:57-59: at least the
\* operator's minPrice, moved by up to 50 either way); no seat carries a
\* priceMultiplier and the bus has no discount.
TicketPrice == 645

\* The booking document createBooking builds (bookingController.js:68-110).
NewBooking(req, bus, pnr) ==
  [busId |-> req.busId,
   passengers |-> req.passengers,
   selectedSeats |-> req.selectedSeats,
   totalPrice |-> req.passengers * TicketPrice,
   status |-> "confirmed",
   departureDate |-> bus.departureTime,
   pnr |-> pnr,
   cancellationPolicy |-> [allowed |-> TRUE, deadlineHours |-> DeadlineHours,
                           refundPercentage |-> RefundPercentage]]

\* CommitTransaction without the transaction: the decrement stays when the
\* insert fails.
CommitTransaction_NoRollback(bs, coll, booking, insertFails) ==
  LET id == booking.busId
      modifiedCount == IF bs[id].exists /\ booking.passengers # 0 THEN 1 ELSE 0
      decremented == [bs EXCEPT ![id].availableSeats = @ - booking.passengers]
  IN  IF modifiedCount # 1 THEN [ok |-> FALSE, buses |-> bs, bookings |-> coll]
      ELSE IF insertFails THEN [ok |-> FALSE, buses |-> decremented, bookings |-> coll]
      ELSE [ok |-> TRUE, buses |-> decremented, bookings |-> Append(coll, booking)]

\* session.withTransaction in createBooking: $inc availableSeats by
\* -passengers.length, throw unless exactly one bus document was modified, then
\* insertOne(booking).  A throw aborts the transaction: nothing is written.
\* ($inc by 0 modifies nothing, so modifiedCount is 0.)
CommitTransaction(bs, coll, booking, insertFails) ==
  LET id == booking.busId
      modifiedCount == IF bs[id].exists /\ booking.passengers # 0 THEN 1 ELSE 0
  IN  IF modifiedCount # 1 \/ insertFails
      THEN [ok |-> FALSE, buses |-> bs, bookings |-> coll]
      ELSE [ok |-> TRUE,
            buses |-> [bs EXCEPT ![id].availableSeats = @ - booking.passengers],
            bookings |-> Append(coll, booking)]

\* Lines 13-39: the body is checked, then the bus is read.
CB_FindBus(r, body) ==
  /\ CanArrive(r)
  /\ LET frame == Arrived(r, "createBooking", body)
         missing == \E f \in BodyFields : f \notin body.given
     IN  http' = [http EXCEPT ![r] =
           IF missing THEN Respond(frame, "missingInformation", NoValue)
           ELSE IF ~IsValidObjectId(body.busId) THEN Respond(frame, "invalidBusId", NoValue)
           ELSE IF ~buses[body.busId].exists THEN Respond(frame, "busNotFound", NoValue)
           ELSE [frame EXCEPT !.pc = "findBookings", !.bus = buses[body.busId]]]
  /\ UNCHANGED <<buses, bookings, now, registryVars>>

\* CB_FindBookings counting the soft locks of the registry as conflicts
CB_FindBookings_TrustsLocks(r, pnr) ==
  /\ http[r].kind = "createBooking"
  /\ http[r].pc = "findBookings"
  /\ LET frame == http[r]
         existing == ExistingBookings(bookings, frame.req.busId, frame.req.selectedSeats)
         m == activeSessions[frame.req.busId].selectedSeats
         locked == \E i \in 1..Len(m) : \E j \in 1..Len(m[i].seats) :
                     m[i].seats[j].seatNumber \in frame.req.selectedSeats
     IN  http' = [http EXCEPT ![r] =
           IF existing # {} \/ locked
           THEN Respond(frame, "seatsAlreadyBooked", ConflictedSeats(bookings, existing))
           ELSE IF frame.bus.availableSeats < frame.req.passengers
           THEN Respond(frame, "notEnoughSeats", frame.bus.availableSeats)
           ELSE [frame EXCEPT !.pc = "transaction",
                              !.booking = NewBooking(frame.req, frame.bus, pnr)]]
  /\ UNCHANGED <<buses, bookings, now, registryVars>>

\* Lines 41-110: the conflicting bookings are read; the seat count is compared
\* with the bus document read before; the booking document is built.
CB_FindBookings(r, pnr) ==
  /\ http[r].kind = "createBooking"
  /\ http[r].pc = "findBookings"
  /\ LET frame == http[r]
         existing == ExistingBookings(bookings, frame.req.busId, frame.req.selectedSeats)
     IN  http' = [http EXCEPT ![r] =
           IF existing # {}
           THEN Respond(frame, "seatsAlreadyBooked", ConflictedSeats(bookings, existing))
           ELSE IF frame.bus.availableSeats < frame.req.passengers
           THEN Respond(frame, "notEnoughSeats", frame.bus.availableSeats)
           ELSE [frame EXCEPT !.pc = "transaction",
                              !.booking = NewBooking(frame.req, frame.bus, pnr)]]
  /\ UNCHANGED <<buses, bookings, now, registryVars>>

\* Lines 112-167: the transaction, then the answer.
CB_Transaction(r, insertFails) ==
  /\ http[r].kind = "createBooking"
  /\ http[r].pc = "transaction"
  /\ LET t == CommitTransaction(buses, bookings, http[r].booking, insertFails)
     IN  /\ buses' = t.buses
         /\ bookings' = t.bookings
         /\ http' = [http EXCEPT ![r] =
              IF t.ok
              THEN [Respond(@, "bookingConfirmed", Len(t.bookings)) EXCEPT
                      !.softLocked = LiveLockOn(http[r].booking.busId,
                                                http[r].booking.selectedSeats)]
              ELSE Respond(@, "bookingFailed", NoValue)]
  /\ UNCHANGED <<now, registryVars>>

createBooking(r) ==
  \/ \E body \in BookingBodies : CB_FindBus(r, body)
  \/ \E pnr \in PNRs : CB_FindBookings(r, pnr)
  \/ \E insertFails \in BOOLEAN : CB_Transaction(r, insertFails)

\* ------------------------------------------------------------ cancelBooking
\* booking.cancellationPolicy?.deadlineHours || 24: 0 and undefined give the default
OrDefault(value, default) == IF value = 0 THEN default ELSE value

\* The products totalPrice * (refundPercentage / 100) that, computed in double
\* precision, fall just below the half they equal exactly (645 * 0.7 is
\* 451.49999999999994): of the prices and percentages of the model, this one.
BelowHalf == {<<TicketPrice, RefundPercentage>>}

\* Math.round(totalPrice * (refundPercentage / 100)): to the nearest integer,
\* a half upwards, of the double-precision product.
MathRoundOfProduct(totalPrice, percentage) ==
  IF <<totalPrice, percentage>> \in BelowHalf
  THEN (totalPrice * percentage) \div 100
  ELSE (2 * totalPrice * percentage + 100) \div 200

\* bookingController.js:533, 551
RefundAmount(booking) ==
  MathRoundOfProduct(booking.totalPrice,
                     OrDefault(booking.cancellationPolicy.refundPercentage, RefundPercentage))

\* session.withTransaction in cancelBooking: updateOne({pnr}) sets the first
\* booking with that pnr to cancelled, whatever its status was (cancelledAt is a
\* new Date(), so the document is modified whenever one matches); throw if none
\* was modified; then $inc availableSeats of the bus by the passenger count of
\* the booking document read before the transaction.
CancelTransaction(bs, coll, pnr, read) ==
  LET i == FindByPnr(coll, pnr)
      modifiedCount == IF i = 0 THEN 0 ELSE 1
  IN  IF modifiedCount = 0
      THEN [ok |-> FALSE, buses |-> bs, bookings |-> coll]
      ELSE [ok |-> TRUE,
            buses |-> IF bs[read.busId].exists
                      THEN [bs EXCEPT ![read.busId].availableSeats = @ + read.passengers]
                      ELSE bs,
            bookings |-> [coll EXCEPT ![i].status = "cancelled"]]

\* Lines 493-507: the booking is read by its pnr.
CN_Find(r, pnr) ==
  /\ CanArrive(r)
  /\ LET frame == Arrived(r, "cancelBooking", pnr)
         i == FindByPnr(bookings, pnr)
     IN  http' = [http EXCEPT ![r] =
           IF i = 0 THEN Respond(frame, "bookingNotFound", NoValue)
           ELSE [frame EXCEPT !.pc = "checks", !.booking = bookings[i]]]
  /\ UNCHANGED <<buses, bookings, now, registryVars>>

\* CN_Checks with the deadline compared before the departure time
CN_Checks_DeadlineFirst(r) ==
  /\ http[r].kind = "cancelBooking"
  /\ http[r].pc = "checks"
  /\ LET frame == http[r]
         booking == frame.booking
         minutesUntilDeparture == booking.departureDate - now
         cancellationDeadline == OrDefault(booking.cancellationPolicy.deadlineHours,
                                           DeadlineHours)
     IN  http' = [http EXCEPT ![r] =
           IF booking.status = "cancelled"
           THEN Respond(frame, "alreadyCancelled", NoValue)
           ELSE IF ~booking.cancellationPolicy.allowed
           THEN Respond(frame, "cancellationNotAllowed", NoValue)
           ELSE IF minutesUntilDeparture < cancellationDeadline * MinutesPerHour
           THEN Respond(frame, "cancellationTooLate", cancellationDeadline)
           ELSE IF booking.departureDate <= now
           THEN Respond(frame, "journeyCompleted", NoValue)
           ELSE [frame EXCEPT !.pc = "transaction"]]
  /\ UNCHANGED <<buses, bookings, now, registryVars>>

\* Lines 509-551: the checks on the booking that was read, at the current time.
CN_Checks(r) ==
  /\ http[r].kind = "cancelBooking"
  /\ http[r].pc = "checks"
  /\ LET frame == http[r]
         booking == frame.booking
         minutesUntilDeparture == booking.departureDate - now
         cancellationDeadline == OrDefault(booking.cancellationPolicy.deadlineHours,
                                           DeadlineHours)
     IN  http' = [http EXCEPT ![r] =
           IF booking.status = "cancelled"
           THEN Respond(frame, "alreadyCancelled", NoValue)
           ELSE IF booking.departureDate <= now
           THEN Respond(frame, "journeyCompleted", NoValue)
           ELSE IF ~booking.cancellationPolicy.allowed
           THEN Respond(frame, "cancellationNotAllowed", NoValue)
           ELSE IF minutesUntilDeparture < cancellationDeadline * MinutesPerHour
           THEN Respond(frame, "cancellationTooLate", cancellationDeadline)
           ELSE [frame EXCEPT !.pc = "transaction"]]
  /\ UNCHANGED <<buses, bookings, now, registryVars>>

\* Lines 553-636: the transaction, then the answer.
CN_Transaction(r) ==
  /\ http[r].kind = "cancelBooking"
  /\ http[r].pc = "transaction"
  /\ LET t == CancelTransaction(buses, bookings, http[r].req, http[r].booking)
     IN  /\ buses' = t.buses
         /\ bookings' = t.bookings
         /\ http' = [http EXCEPT ![r] =
              IF t.ok THEN Respond(@, "bookingCancelled", RefundAmount(http[r].booking))
              ELSE Respond(@, "cancelFailed", NoValue)]
  /\ UNCHANGED <<now, registryVars>>

cancelBooking(r) ==
  \/ \E pnr \in PNRs : CN_Find(r, pnr)
  \/ CN_Checks(r)
  \/ CN_Transaction(r)

\* ------------------------------------------------------ updateBookingStatus
\* the statuses PUT /api/bookings/:id/status is tried with (all valid)
NewStatuses == {"cancelled", "confirmed", "pending"}

\* Lines 640-671: findOne({_id}).  The _id of a booking is its place in the
\* collection; 0 is a well-formed id no booking has.
US_Find(r, id, status) ==
  /\ CanArrive(r)
  /\ LET frame == Arrived(r, "updateBookingStatus", [id |-> id, status |-> status])
     IN  http' = [http EXCEPT ![r] =
           IF id \notin 1..Len(bookings) THEN Respond(frame, "bookingNotFound", NoValue)
           ELSE [frame EXCEPT !.pc = IF status = "cancelled" THEN "returnSeats" ELSE "update",
                              !.booking = bookings[id]]]
  /\ UNCHANGED <<buses, bookings, now, registryVars>>

\* Lines 682-695: for the status cancelled the seats are returned to the bus,
\* in an update of its own.
US_ReturnSeats(r) ==
  /\ http[r].kind = "updateBookingStatus"
  /\ http[r].pc = "returnSeats"
  /\ LET booking == http[r].booking
     IN  buses' = IF buses[booking.busId].exists
                  THEN [buses EXCEPT ![booking.busId].availableSeats = @ + booking.passengers]
                  ELSE buses
  /\ http' = [http EXCEPT ![r].pc = "update"]
  /\ UNCHANGED <<bookings, now, registryVars>>

\* Lines 697-707: the status is set (updatedAt is a new Date(), so the document
\* is modified), then the answer.
US_Update(r) ==
  /\ http[r].kind = "updateBookingStatus"
  /\ http[r].pc = "update"
  /\ bookings' = [bookings EXCEPT ![http[r].req.id].status = http[r].req.status]
  /\ http' = [http EXCEPT ![r] = Respond(@, "statusUpdated", NoValue)]
  /\ UNCHANGED <<buses, now, registryVars>>

updateBookingStatus(r) ==
  \/ \E id \in 0..(NumRequests + 1), status \in NewStatuses : US_Find(r, id, status)
  \/ US_ReturnSeats(r)
  \/ US_Update(r)

\* ---------------------------------------------------------------- deleteBus
\* bookingsCollection.countDocuments({busId, status: {$in: ["confirmed","pending"]}})
CountActiveBookings(coll, busId) ==
  Cardinality({ i \in 1..Len(coll) :
                  coll[i].busId = busId /\ coll[i].status \in ActiveStatuses })

\* Lines 1392-1421: the admin token, then the count of active bookings.
DB_Count(r, busId, authorized) ==
  /\ CanArrive(r)
  /\ LET frame == Arrived(r, "deleteBus", busId)
     IN  http' = [http EXCEPT ![r] =
           IF ~authorized THEN Respond(frame, "unauthorized", NoValue)
           ELSE IF ~IsValidObjectId(busId) THEN Respond(frame, "invalidBusId", NoValue)
           ELSE IF CountActiveBookings(bookings, busId) > 0
           THEN Respond(frame, "busHasBookings", NoValue)
           ELSE [frame EXCEPT !.pc = "deleteOne"]]
  /\ UNCHANGED <<buses, bookings, now, registryVars>>

\* Lines 1423-1438: deleteOne.
DB_Delete(r) ==
  /\ http[r].kind = "deleteBus"
  /\ http[r].pc = "deleteOne"
  /\ LET busId == http[r].req
         deletedCount == IF buses[busId].exists THEN 1 ELSE 0
     IN  /\ buses' = IF deletedCount = 1 THEN [buses EXCEPT ![busId] = DeletedBus] ELSE buses
         /\ http' = [http EXCEPT ![r] =
              IF deletedCount = 0 THEN Respond(@, "busNotFound", NoValue)
              ELSE Respond(@, "busDeleted", NoValue)]
  /\ UNCHANGED <<bookings, now, registryVars>>

deleteBus(r) ==
  \/ \E busId \in Buses, authorized \in BOOLEAN : DB_Count(r, busId, authorized)
  \/ DB_Delete(r)

\* -------------------------------------------------------------------- clock
Tick ==
  /\ now < MaxTime
  /\ now' = now + 1
  /\ UNCHANGED <<buses, bookings, http, activeSessions, sockets, granted>>
  /\ broadcast' = {}

\* ------------------------------------------------- seat-selection registry
\* (src/src/index.js)  activeSessions maps a busId to a session object whose
\* selectedSeats is a Map from socket id to that socket's array of selections;
\* a Map keeps its keys in insertion order, so it is a sequence of entries here.
\* The field lastUpdated is written and never read; it is left out.
SecondsPerMinute == 60        \* index.js:273
SelectableSeats == {1, 11}    \* the seats select-seat is tried with
SeatActions == {"select", "deselect"}

NoSession == [active |-> FALSE, selectedSeats |-> <<>>]
NewSession == [active |-> TRUE, selectedSeats |-> <<>>]

\* Map.has, Map.get, Map.set, Map.delete
Has(m, k) == \E i \in 1..Len(m) : m[i].socketId = k
Get(m, k) == m[CHOOSE i \in 1..Len(m) : m[i].socketId = k].seats
Set(m, k, v) ==
  IF Has(m, k)
  THEN [i \in 1..Len(m) |-> IF m[i].socketId = k THEN [m[i] EXCEPT !.seats = v] ELSE m[i]]
  ELSE Append(m, [socketId |-> k, seats |-> v])
Delete(m, k) == SelectSeq(m, LAMBDA e : e.socketId # k)

\* the select branch without its findIndex guard: every select pushes a record
HasSeat_Never(seats, n) == FALSE

\* seats.findIndex(...) !== -1, seats.filter(keep)
HasSeat(seats, n) == \E i \in 1..Len(seats) : seats[i].seatNumber = n
WithoutSeat(seats, n) == SelectSeq(seats, LAMBDA x : x.seatNumber # n)

\* getBookedSeats(busId): the seat numbers of the confirmed and pending bookings
\* of the bus; [] when the query throws.
GetBookedSeats(coll, busId, queryFails) ==
  IF queryFails THEN {}
  ELSE UNION { coll[i].selectedSeats :
                 i \in { k \in 1..Len(coll) : coll[k].busId = busId
                                              /\ coll[k].status \in ActiveStatuses } }

RECURSIVE OthersOf(_, _)
\* the loop of getSelectedByOthers over the entries of the Map
OthersOf(m, socketId) ==
  IF m = <<>> THEN <<>>
  ELSE IF Head(m).socketId = socketId THEN OthersOf(Tail(m), socketId)
  ELSE [i \in 1..Len(Head(m).seats) |->
          [seatNumber |-> Head(m).seats[i].seatNumber,
           selectedAt |-> Head(m).seats[i].selectedAt,
           expiresAt |-> Head(m).seats[i].expiresAt,
           userId |-> Head(m).socketId]]
       \o OthersOf(Tail(m), socketId)

\* getSelectedByOthers(busId, socketId)
GetSelectedByOthers(sessions, busId, socketId) ==
  IF ~sessions[busId].active THEN <<>>
  ELSE OthersOf(sessions[busId].selectedSeats, socketId)

\* selectedByOthers.find(s => s.seatNumber === seatNumber): its index, 0 if none
FindSeat(selections, n) ==
  IF \E i \in 1..Len(selections) : selections[i].seatNumber = n
  THEN CHOOSE i \in 1..Len(selections) :
         /\ selections[i].seatNumber = n
         /\ \A j \in 1..(i - 1) : selections[j].seatNumber # n
  ELSE 0

\* a sweep that also drops the records that expire within the next minute
ValidSelections_Early(m, t) ==
  SelectSeq([i \in 1..Len(m) |->
               [m[i] EXCEPT !.seats = SelectSeq(@, LAMBDA x : x.expiresAt > t + 1)]],
            LAMBDA e : e.seats # <<>>)

\* One pass of cleanupExpiredSelections over the Map of one session.
ValidSelections(m, t) ==
  SelectSeq([i \in 1..Len(m) |->
               [m[i] EXCEPT !.seats = SelectSeq(@, LAMBDA x : x.expiresAt > t)]],
            LAMBDA e : e.seats # <<>>)

\* The frame of the handler a socket is running (one at a time): the event
\* (handler), where it stands (pc), its arguments, the time it read on arrival
\* (startedAt), whether the session object it holds is still the one in
\* activeSessions (session), what it has read, and what it emitted to its own
\* socket (response, timeLeft, bookedSeats, selectedByOthers); whether the seat
\* was free (not booked, selected by no one) when the event arrived, and the
\* sockets whose select-seat for the same seat was answered with success while
\* this handler was waiting (winners).
NoHandler ==
  [handler |-> "none", pc |-> "idle", busId |-> NoValue, seatNumber |-> 0,
   action |-> NoValue, startedAt |-> 0, session |-> "none", found |-> FALSE,
   queryFailed |-> FALSE, bookedSeats |-> {}, response |-> NoValue, timeLeft |-> 0,
   selectedByOthers |-> <<>>, seatWasFree |-> FALSE, winners |-> {}]

Running(h) == sockets[h].frame.pc \notin {"idle", "done"}

\* A connected socket whose last event has been handled sends the next one.
CanSend(h) ==
  /\ sockets[h].state = "connected"
  /\ ~Running(h)
  /\ sockets[h].sent < MaxEvents

\* socket.emit(event, ..) as the last act of a handler: the handler and its
\* arguments stay on record with the event, its locals are gone.
Emit(frame, event) ==
  [NoHandler EXCEPT !.pc = "done", !.response = event, !.handler = frame.handler,
                    !.busId = frame.busId, !.seatNumber = frame.seatNumber,
                    !.action = frame.action]

Frame(h, f) == [sockets EXCEPT ![h].frame = f]

\* the socket has sent an event and its handler has got as far as frame f
Sent(h, f) == [sockets EXCEPT ![h].frame = f, ![h].sent = @ + 1]

\* io.on("connection")
Connect(h) ==
  /\ sockets[h].state = "new"
  /\ \A k \in 1..(h - 1) : sockets[k].state # "new"
  /\ sockets' = [sockets EXCEPT ![h].state = "connected"]
  /\ UNCHANGED <<buses, bookings, http, now, activeSessions, granted>>
  /\ broadcast' = {}

\* ----------------------------------------------------------------- join-bus
\* index.js:199-207: the id is checked and the bus is read.
JB_FindBus(h, busId) ==
  /\ CanSend(h)
  /\ LET f == [NoHandler EXCEPT !.handler = "join-bus", !.busId = busId, !.startedAt = now]
     IN  sockets' = Sent(h,
           IF ~IsValidObjectId(busId) THEN Emit(f, "error")
           ELSE [f EXCEPT !.pc = "join", !.found = buses[busId].exists])
  /\ UNCHANGED <<buses, bookings, http, now, activeSessions, granted>>
  /\ broadcast' = {}

\* index.js:209-228: the socket joins the room of the bus (rooms) and the
\* session of the bus is created if there is none.
JB_Join(h) ==
  /\ sockets[h].frame.handler = "join-bus"
  /\ sockets[h].frame.pc = "join"
  /\ LET f == sockets[h].frame
     IN  IF ~f.found
         THEN /\ sockets' = Frame(h, Emit(f, "error"))
              /\ UNCHANGED activeSessions
         ELSE /\ sockets' = [sockets EXCEPT ![h].frame = [f EXCEPT !.pc = "bookedSeats"],
                                            ![h].rooms = @ \cup {f.busId}]
              /\ activeSessions' =
                   IF activeSessions[f.busId].active THEN activeSessions
                   ELSE [activeSessions EXCEPT ![f.busId] = NewSession]
  /\ UNCHANGED <<buses, bookings, http, now, granted>>
  /\ broadcast' = {}

\* index.js:228 (getBookedSeats, lines 135-150): the booked seats are read.
JB_BookedSeats(h, queryFails) ==
  /\ sockets[h].frame.handler = "join-bus"
  /\ sockets[h].frame.pc = "bookedSeats"
  /\ sockets' = Frame(h, [sockets[h].frame EXCEPT
         !.pc = "status",
         !.queryFailed = queryFails,
         !.bookedSeats = GetBookedSeats(bookings, sockets[h].frame.busId, queryFails)])
  /\ UNCHANGED <<buses, bookings, http, now, activeSessions, granted>>
  /\ broadcast' = {}

\* index.js:229-234: seat-status is emitted.
JB_Status(h) ==
  /\ sockets[h].frame.handler = "join-bus"
  /\ sockets[h].frame.pc = "status"
  /\ LET f == sockets[h].frame
     IN  sockets' = Frame(h,
           [Emit(f, "seat-status") EXCEPT
              !.bookedSeats = f.bookedSeats,
              !.selectedByOthers = GetSelectedByOthers(activeSessions, f.busId, h)])
  /\ UNCHANGED <<buses, bookings, http, now, activeSessions, granted>>
  /\ broadcast' = {}

joinBus(h) ==
  \/ \E busId \in Buses : JB_FindBus(h, busId)
  \/ JB_Join(h)
  \/ \E queryFails \in BOOLEAN : JB_BookedSeats(h, queryFails)
  \/ JB_Status(h)

\* -------------------------------------------------------------- select-seat
\* the record select-seat pushes (index.js:289-294)
Selection(seatNumber, at) ==
  [seatNumber |-> seatNumber, selectedAt |-> at, expiresAt |-> at + LockMinutes]

\* index.js:242-250: the session is looked up and the time is read.
SS_Arrive(h, busId, seatNumber, action) ==
  /\ CanSend(h)
  /\ LET f == [NoHandler EXCEPT
                 !.handler = "select-seat", !.busId = busId, !.seatNumber = seatNumber,
                 !.action = action, !.startedAt = now,
                 !.seatWasFree =
                    /\ seatNumber \notin GetBookedSeats(bookings, busId, FALSE)
                    /\ \A i \in 1..Len(activeSessions[busId].selectedSeats) :
                         ~HasSeat(activeSessions[busId].selectedSeats[i].seats, seatNumber)]
     IN  sockets' = Sent(h,
           IF ~activeSessions[busId].active THEN Emit(f, "error")
           ELSE [f EXCEPT !.pc = "query", !.session = "active"])
  /\ granted' = IF action = "deselect"
                THEN { g \in granted : ~(g.socketId = h /\ g.busId = busId
                                         /\ g.seatNumber = seatNumber) }
                ELSE granted
  /\ UNCHANGED <<buses, bookings, http, now, activeSessions>>
  /\ broadcast' = {}

\* index.js:253 (getBookedSeats, lines 135-150): the booked seats are read.
SS_Query(h, queryFails) ==
  /\ sockets[h].frame.handler = "select-seat"
  /\ sockets[h].frame.pc = "query"
  /\ sockets' = Frame(h, [sockets[h].frame EXCEPT
         !.pc = "resume",
         !.queryFailed = queryFails,
         !.bookedSeats = GetBookedSeats(bookings, sockets[h].frame.busId, queryFails)])
  /\ UNCHANGED <<buses, bookings, http, now, activeSessions, granted>>
  /\ broadcast' = {}

\* Deselected taking the seat out of every holder's array
Deselected_Everyone(held, h, seatNumber) ==
  [i \in 1..Len(held) |-> [held[i] EXCEPT !.seats = WithoutSeat(@, seatNumber)]]

\* index.js:312-314: the holder's own array without the seat
Deselected(held, h, seatNumber) ==
  Set(held, h, WithoutSeat(Get(held, h), seatNumber))

\* index.js:254-329: the rest of the handler.  The result is the Map of the
\* session object the handler holds, what it emits, and the time left it names.
\* held is that Map: the one in activeSessions, or one that cleanup has removed
\* from activeSessions since (then empty, and written in vain).
SelectSeat(sessions, f, h) ==
  LET held == IF f.session = "active" THEN sessions[f.busId].selectedSeats ELSE <<>>
      selectedByOthers == GetSelectedByOthers(sessions, f.busId, h)
      found == FindSeat(selectedByOthers, f.seatNumber)
      timeDiff == f.startedAt - selectedByOthers[found].selectedAt
  IN  IF f.seatNumber \in f.bookedSeats
      THEN [map |-> held, event |-> "seat-unavailable", timeLeft |-> 0]
      ELSE IF found # 0 /\ timeDiff < LockMinutes
      THEN [map |-> held, event |-> "seat-locked",
            timeLeft |-> LockMinutes * SecondsPerMinute - timeDiff * SecondsPerMinute]
      ELSE IF f.action = "select"
      THEN LET m == IF Has(held, h) THEN held ELSE Set(held, h, <<>>)
           IN  IF ~HasSeat(Get(m, h), f.seatNumber)
               THEN [map |-> Set(m, h, Append(Get(m, h),
                                              Selection(f.seatNumber, f.startedAt))),
                     event |-> "seat-selection-success", timeLeft |-> 0]
               ELSE [map |-> m, event |-> "none", timeLeft |-> 0]
      ELSE IF f.action = "deselect" /\ Has(held, h)
      THEN [map |-> Deselected(held, h, f.seatNumber),
            event |-> "seat-deselection-success", timeLeft |-> 0]
      ELSE [map |-> held, event |-> "none", timeLeft |-> 0]

SS_Resume(h) ==
  /\ sockets[h].frame.handler = "select-seat"
  /\ sockets[h].frame.pc = "resume"
  /\ LET f == sockets[h].frame
         out == SelectSeat(activeSessions, f, h)
     IN  /\ sockets' = [k \in Sockets |->
              IF k = h
              THEN [sockets[k] EXCEPT
                      !.frame = [Emit(f, out.event) EXCEPT !.timeLeft = out.timeLeft]]
              ELSE IF /\ out.event = "seat-selection-success"
                      /\ Running(k)
                      /\ sockets[k].frame.handler = "select-seat"
                      /\ sockets[k].frame.busId = f.busId
                      /\ sockets[k].frame.seatNumber = f.seatNumber
              THEN [sockets[k] EXCEPT !.frame.winners = @ \cup {h}]
              ELSE sockets[k]]
         /\ activeSessions' =
              IF f.session = "active"
              THEN [activeSessions EXCEPT ![f.busId].selectedSeats = out.map]
              ELSE activeSessions
         /\ granted' =
              IF out.event = "seat-selection-success" /\ sockets[h].state = "connected"
              THEN granted \cup { [socketId |-> h, busId |-> f.busId,
                                   seatNumber |-> f.seatNumber, at |-> f.startedAt] }
              ELSE granted
  /\ UNCHANGED <<buses, bookings, http, now>>
  /\ broadcast' =
       LET f == sockets[h].frame
           event == SelectSeat(activeSessions, f, h).event
       IN  IF event = "seat-selection-success"
           THEN {[event |-> "seat-selected", busId |-> f.busId, seats |-> {f.seatNumber}]}
           ELSE IF event = "seat-deselection-success"
           THEN {[event |-> "seat-deselected", busId |-> f.busId, seats |-> {f.seatNumber}]}
           ELSE {}

selectSeat(h) ==
  \/ \E busId \in Buses, n \in SelectableSeats, action \in SeatActions :
       SS_Arrive(h, busId, n, action)
  \/ \E queryFails \in BOOLEAN : SS_Query(h, queryFails)
  \/ SS_Resume(h)

\* --------------------------------------------------------- booking-completed
\* the bookedSeats arrays a client reports (the seats of the first booking body)
CompletedSeats == {{1, 2}}

\* seats.filter(seat => !bookedSeats.includes(seat.seatNumber)) for every entry
\* of the Map; an entry that ends up empty is deleted (index.js:358-365).
WithoutBooked(m, bookedSeats) ==
  SelectSeq([i \in 1..Len(m) |->
               [m[i] EXCEPT !.seats = SelectSeq(@, LAMBDA x : x.seatNumber \notin bookedSeats)]],
            LAMBDA e : e.seats # <<>>)

\* index.js:353-376: the handler has no await; it answers its own socket with
\* nothing of its own (the broadcast to the room is not recorded).
bookingCompleted(h) ==
  \E busId \in Buses, bookedSeats \in CompletedSeats :
    /\ CanSend(h)
    /\ sockets' = Sent(h, Emit([NoHandler EXCEPT !.handler = "booking-completed",
                                                 !.busId = busId], "none"))
    /\ activeSessions' =
         IF activeSessions[busId].active
         THEN [activeSessions EXCEPT ![busId].selectedSeats = WithoutBooked(@, bookedSeats)]
         ELSE activeSessions
    /\ UNCHANGED <<buses, bookings, http, now, granted>>
    /\ broadcast' =
         IF activeSessions[busId].active
         THEN {[event |-> "seats-booked", busId |-> busId, seats |-> bookedSeats]}
         ELSE {}

\* --------------------------------------------------------------- disconnect
\* userSeats.map(s => s.seatNumber) for the entry of socket h in the session of b
SeatNumbers(b, h) ==
  LET m == activeSessions[b].selectedSeats
  IN  IF Has(m, h) THEN { Get(m, h)[j].seatNumber : j \in 1..Len(Get(m, h)) } ELSE {}

\* index.js:379-397: the socket's entry is deleted from every session.
Disconnect(h) ==
  /\ sockets[h].state = "connected"
  /\ sockets' = [sockets EXCEPT ![h].state = "disconnected", ![h].rooms = {}]
  /\ activeSessions' = [b \in Buses |->
       [activeSessions[b] EXCEPT !.selectedSeats = Delete(@, h)]]
  /\ granted' = { g \in granted : g.socketId # h }
  /\ UNCHANGED <<buses, bookings, http, now>>
  /\ broadcast' =
       { [event |-> "seats-released", busId |-> b, seats |-> SeatNumbers(b, h)] :
           b \in { c \in Buses : SeatNumbers(c, h) # {} } }

\* ------------------------------------------------- cleanupExpiredSelections
\* index.js:172-189 for one session: none is left when its Map ends up empty.
CleanedSession(session, t) ==
  IF ~session.active THEN session
  ELSE LET m == ValidSelections(session.selectedSeats, t)
       IN  IF m = <<>> THEN NoSession ELSE [session EXCEPT !.selectedSeats = m]

\* The timer of index.js:192.  A select-seat handler that holds a session
\* object which is deleted from activeSessions keeps that object.
cleanupExpiredSelections ==
  /\ activeSessions' = [b \in Buses |-> CleanedSession(activeSessions[b], now)]
  /\ sockets' = [h \in Sockets |->
       IF /\ sockets[h].frame.session = "active"
          /\ ~activeSessions'[sockets[h].frame.busId].active
       THEN [sockets[h] EXCEPT !.frame.session = "deleted"]
       ELSE sockets[h]]
  /\ UNCHANGED <<buses, bookings, http, now, granted>>
  /\ broadcast' = {}

\* ------------------------------------------------------------------ Init
\* The buses as generateDailySchedules inserts them.
GeneratedBuses ==
  { bs \in [Buses -> { [exists |-> TRUE,
                        totalSeats |-> TotalSeatsStandard,
                        availableSeats |-> MinGeneratedAvailable,
                        departureTime |-> d] : d \in DepartureTimes }] :
      \A b \in Buses : bs[b].availableSeats \in GeneratedAvailable(bs[b].totalSeats) }

\* The server starts (startServer) on the database as it is: the generated buses
\* and either no booking or one booking that createBooking committed in an
\* earlier run.  No request is running.
Init ==
  /\ \E bs \in GeneratedBuses :
       \/ buses = bs /\ bookings = <<>>
       \/ LET t == CommitTransaction(bs, <<>>,
                     NewBooking(EarlierBody, bs[EarlierBody.busId], "PNR1"), FALSE)
          IN  buses = t.buses /\ bookings = t.bookings
  /\ http = [r \in Requests |-> Idle]
  /\ now = 0
  /\ activeSessions = [b \in Buses |-> NoSession]
  /\ sockets = [h \in Sockets |->
                  [state |-> "new", sent |-> 0, rooms |-> {}, frame |-> NoHandler]]
  /\ granted = {}
  /\ broadcast = {}

NextBooking ==
  \E r \in Requests : \/ createBooking(r) \/ cancelBooking(r)
                      \/ updateBookingStatus(r) \/ deleteBus(r)

NextRegistry ==
  \/ \E h \in Sockets : \/ Connect(h) \/ joinBus(h) \/ selectSeat(h)
                        \/ bookingCompleted(h) \/ Disconnect(h)
  \/ cleanupExpiredSelections

Next ==
  \/ NextBooking
  \/ NextRegistry
  \/ Tick

Spec == Init /\ [][Next]_vars

\* The seat-selection registry with the clock, on the bookings the database
\* holds.  No handler of the registry reads the departure time: one is taken.
InitRegistry ==
  /\ Init
  /\ \A b \in Buses : buses[b].departureTime = DeadlineHours * MinutesPerHour + 2

SpecRegistry == InitRegistry /\ [][NextRegistry \/ Tick]_vars

\* Seat selection next to the commit engine: one holder joins and selects
\* while one client creates bookings.
First(S) == CHOOSE x \in S : \A y \in S : x <= y

NextSelectAndCommit ==
  \/ \E h \in {First(Sockets)} : \/ Connect(h) \/ joinBus(h) \/ selectSeat(h)
                                 \/ bookingCompleted(h)
  \/ \E r \in {First(Requests)} : createBooking(r)

SpecSelectAndCommit == InitRegistry /\ [][NextSelectAndCommit]_vars

\* The whole registry of one holder next to the commit and cancellation engines
\* of one client, with the clock.
NextLedgerBesideRegistry ==
  \/ \E h \in {First(Sockets)} : \/ Connect(h) \/ joinBus(h) \/ selectSeat(h)
                                 \/ bookingCompleted(h) \/ Disconnect(h)
  \/ cleanupExpiredSelections
  \/ \E r \in {First(Requests)} : createBooking(r) \/ cancelBooking(r)
  \/ Tick

SpecLedgerBesideRegistry == InitRegistry /\ [][NextLedgerBesideRegistry]_vars

\* The commit and cancellation engines with the clock.
SpecBooking == Init /\ [][NextBooking \/ Tick]_vars

\* ================================================================== claims
Finished(r, kind) == http[r].kind = kind /\ http[r].pc = "done"

\* r and q were running at the same time
Concurrent(r, q) == r \in http[q].arrivedDuring \/ q \in http[r].arrivedDuring

\* createBooking requests that got as far as reading the bus
ReadBus(r) ==
  /\ Finished(r, "createBooking")
  /\ http[r].response \in {"seatsAlreadyBooked", "notEnoughSeats",
                           "bookingConfirmed", "bookingFailed"}

ActiveBookings(b) ==
  { i \in 1..Len(bookings) : bookings[i].busId = b /\ bookings[i].status \in ActiveStatuses }

\* C1: no two confirmed or pending bookings of one departure contain the same
\* seat number.
C1_NoSeatSoldTwice ==
  \A b \in Buses : \A i, j \in ActiveBookings(b) :
    i # j => bookings[i].selectedSeats \cap bookings[j].selectedSeats = {}

\* C2: of createBooking requests for one departure with overlapping seat sets
\* that run concurrently, exactly one succeeds and the other is rejected with
\* the seat-conflict error.  (Requests that fail for another reason - the bus
\* is gone, the insert fails, too few seats - are left aside.)
C2_ExactlyOneWins ==
  \A r, q \in Requests :
    ( /\ r # q
      /\ ReadBus(r) /\ ReadBus(q)
      /\ Concurrent(r, q)
      /\ http[r].req.busId = http[q].req.busId
      /\ http[r].req.selectedSeats \cap http[q].req.selectedSeats # {}
      /\ {http[r].response, http[q].response} \cap {"bookingFailed", "notEnoughSeats"} = {} )
    => {http[r].response, http[q].response} = {"bookingConfirmed", "seatsAlreadyBooked"}

\* C3: 0 <= availableSeats <= totalSeats for every departure.
C3_AvailableWithinBounds ==
  \A b \in Buses :
    buses[b].exists =>
      /\ 0 <= buses[b].availableSeats
      /\ buses[b].availableSeats <= buses[b].totalSeats

RECURSIVE SeatsOf(_, _)
\* the number of seats of the bookings indexed by idx
SeatsOf(coll, idx) ==
  IF idx = {} THEN 0
  ELSE LET i == CHOOSE k \in idx : TRUE
       IN  Cardinality(coll[i].selectedSeats) + SeatsOf(coll, idx \ {i})

ConfirmedBookings(b) ==
  { i \in 1..Len(bookings) : bookings[i].busId = b /\ bookings[i].status = "confirmed" }

\* C4: availableSeats plus the seats of the confirmed bookings is totalSeats,
\* from the creation of the departure on.
C4_SeatsAccountedFor ==
  \A b \in Buses :
    buses[b].exists =>
      buses[b].availableSeats + SeatsOf(bookings, ConfirmedBookings(b)) = buses[b].totalSeats

\* C5: concurrent createBooking requests for disjoint seats that together ask
\* for more seats than the departure has left do not all succeed: the one that
\* comes too late is rejected with the not-enough-seats error; with 2 seats
\* left and two requests of 2 seats, one succeeds and availableSeats ends at 0.
C5_NoOversell ==
  \A r, q \in Requests :
    ( /\ r # q
      /\ ReadBus(r) /\ ReadBus(q)
      /\ Concurrent(r, q)
      /\ http[r].req.busId = http[q].req.busId
      /\ http[r].req.selectedSeats \cap http[q].req.selectedSeats = {}
      /\ http[r].bus.availableSeats = http[q].bus.availableSeats
      /\ http[r].req.passengers + http[q].req.passengers > http[r].bus.availableSeats
      /\ "bookingFailed" \notin {http[r].response, http[q].response} )
    => /\ {http[r].response, http[q].response} = {"bookingConfirmed", "notEnoughSeats"}
       /\ buses[http[r].req.busId].exists =>
            buses[http[r].req.busId].availableSeats >= 0

\* C6: of the cancelBooking requests with the reference code of one booking,
\* only the first cancels and returns the seats; every other one is answered
\* with the already-cancelled error.
C6_CancelledOnce ==
  \A r, q \in Requests :
    ( /\ r # q
      /\ Finished(r, "cancelBooking") /\ Finished(q, "cancelBooking")
      /\ http[r].req = http[q].req
      /\ Cardinality({ i \in 1..Len(bookings) : bookings[i].pnr = http[r].req }) = 1
      /\ http[r].response = "bookingCancelled" )
    => http[q].response = "alreadyCancelled"

\* C7: in createBooking the decrement of availableSeats and the insertion of
\* the booking happen in one step or not at all: a step inserts a booking
\* exactly when it takes that booking's passenger count from the counter of its
\* bus, and a step that ends a createBooking with a failure writes nothing.
C7_Inserted ==
  Len(bookings') > Len(bookings) =>
    \E bk \in { http[r].booking : r \in { x \in Requests : http[x].pc = "transaction"
                                                         /\ http[x].kind = "createBooking" } } :
      /\ bookings' = Append(bookings, bk)
      /\ buses[bk.busId].exists /\ buses'[bk.busId].exists
      /\ buses'[bk.busId].availableSeats = buses[bk.busId].availableSeats - bk.passengers

C7_Decremented ==
  \A b \in Buses :
    ( /\ buses[b].exists /\ buses'[b].exists
      /\ buses'[b].availableSeats < buses[b].availableSeats )
    => /\ Len(bookings') = Len(bookings) + 1
       /\ bookings'[Len(bookings')].busId = b
       /\ bookings'[Len(bookings')].passengers
            = buses[b].availableSeats - buses'[b].availableSeats

C7_FailureWritesNothing ==
  \A r \in Requests :
    ( /\ http[r].kind = "createBooking"
      /\ http[r].pc # "done"
      /\ http'[r].pc = "done"
      /\ http'[r].response # "bookingConfirmed" )
    => UNCHANGED <<buses, bookings>>

C7_CommitAtomic ==
  [][C7_Inserted /\ C7_Decremented /\ C7_FailureWritesNothing]_vars

\* A createBooking whose transaction failed, beside one that committed.
C7_Witness ==
  \E r, q \in Requests :
    /\ Finished(r, "createBooking") /\ http[r].response = "bookingFailed"
    /\ Finished(q, "createBooking") /\ http[q].response = "bookingConfirmed"

\* ------------------------------------------------------------------- C8
SelectAnswered(h, event) ==
  /\ sockets[h].frame.handler = "select-seat"
  /\ sockets[h].frame.pc = "resume"
  /\ sockets'[h].frame.pc = "done"
  /\ sockets'[h].frame.response = event

\* the soft locks other holders were granted on the seat of h's select-seat
\* and that are neither released, dropped by a disconnect nor two minutes old
LiveLocksOfOthers(h) ==
  { g \in granted : /\ g.socketId # h
                     /\ g.busId = sockets[h].frame.busId
                     /\ g.seatNumber = sockets[h].frame.seatNumber
                     /\ now < g.at + LockMinutes }

\* C8: once a holder has been granted a soft lock on a seat at time T, no
\* select-seat of another holder for that seat is answered with
\* seat-selection-success before the first holder deselects the seat or
\* disconnects or T + 2 minutes is reached, whatever the interleaving of
\* join-bus, select-seat, disconnect and cleanupExpiredSelections.
C8_LockExcludesOthers ==
  [][\A h \in Sockets :
       SelectAnswered(h, "seat-selection-success") => LiveLocksOfOthers(h) = {}]_vars

\* ------------------------------------------------------------------- C9
\* C9: when two holders send select-seat for the same free seat and their
\* handlers overlap at the booked-seat query, one is answered with
\* seat-selection-success and the other with seat-locked: a select for a seat
\* that was free on arrival, of which another holder took the lock meanwhile
\* and still holds it, is answered with seat-locked.
C9_LoserIsRejected ==
  [][\A h \in Sockets :
       ( /\ sockets[h].frame.handler = "select-seat"
         /\ sockets[h].frame.pc = "resume"
         /\ sockets'[h].frame.pc = "done"
         /\ sockets[h].frame.action = "select"
         /\ sockets[h].frame.seatWasFree
         /\ \E g \in LiveLocksOfOthers(h) : g.socketId \in sockets[h].frame.winners )
       => sockets'[h].frame.response = "seat-locked"]_vars

\* ------------------------------------------------------------------ C10
\* C10: no soft lock is granted on a seat that is in a confirmed or pending
\* booking at the moment the lock is recorded, also when the booking was
\* committed by createBooking after the handler's booked-seat query returned:
\* a select-seat whose query returned is not answered with
\* seat-selection-success for a seat the bookings collection holds as booked.
C10_NoLockOnBookedSeat ==
  [][\A h \in Sockets :
       ( /\ SelectAnswered(h, "seat-selection-success")
         /\ ~sockets[h].frame.queryFailed )
       => sockets[h].frame.seatNumber
            \notin GetBookedSeats(bookings, sockets[h].frame.busId, FALSE)]_vars

\* ------------------------------------------------------------------ C11
\* the entries of the session's Map that hold a selection of a seat of seats
LocksOn(busId, seats) ==
  LET m == activeSessions[busId].selectedSeats
  IN  { i \in 1..Len(m) :
          \E j \in 1..Len(m[i].seats) : m[i].seats[j].seatNumber \in seats }

\* C11: a successful createBooking removes, as part of the commit, every soft
\* lock on a seat it booked: once the request has been answered with "Booking
\* confirmed" and while its booking is confirmed, the registry holds no
\* selection of any holder for a seat of the booking.
C11_CommitReleasesLocks ==
  \A r \in Requests :
    ( /\ Finished(r, "createBooking")
      /\ http[r].response = "bookingConfirmed"
      /\ bookings[http[r].detail].status = "confirmed" )
    => LocksOn(http[r].req.busId, http[r].req.selectedSeats) = {}

\* ------------------------------------------------------------------ C12
\* C12: when the booked-seat query of a select-seat fails, the seat is treated
\* as unavailable and no soft lock is granted: such a handler never answers
\* with seat-selection-success and records no selection.
C12_FailedQueryGrantsNothing ==
  [][\A h \in Sockets :
       ( /\ sockets[h].frame.handler = "select-seat"
         /\ sockets[h].frame.pc = "resume"
         /\ sockets'[h].frame.pc = "done"
         /\ sockets[h].frame.action = "select"
         /\ sockets[h].frame.queryFailed )
       => /\ sockets'[h].frame.response # "seat-selection-success"
          /\ activeSessions' = activeSessions]_vars

\* ------------------------------------------------------------------ C13
\* h's select-seat is answered in this step: on arrival (no session) or when
\* the handler resumes after the booked-seat query
SelectFinishes(h) ==
  /\ sockets'[h].frame.handler = "select-seat"
  /\ sockets'[h].frame.pc = "done"
  /\ \/ sockets[h].frame.handler = "select-seat" /\ sockets[h].frame.pc = "resume"
     \/ sockets'[h].sent = sockets[h].sent + 1

\* the time the handler read when the event arrived
ArrivalTime(h) ==
  IF sockets[h].frame.pc = "resume" THEN sockets[h].frame.startedAt ELSE now

\* the selections of the seat of h's select-seat that were granted to holders
\* that kept them
GrantsOnSeat(h) ==
  { g \in granted : /\ g.busId = sockets'[h].frame.busId
                    /\ g.seatNumber = sockets'[h].frame.seatNumber }

\* C13: once another holder's soft lock on an unbooked seat is two minutes old,
\* a select-seat for the seat by a connected holder that has joined the
\* departure is answered with seat-selection-success, whether cleanup has run
\* or not: every lock on the seat belongs to others and had expired when the
\* event arrived.
C13_ExpiredLockIsAcquirable ==
  [][\A h \in Sockets :
       ( /\ SelectFinishes(h)
         /\ sockets'[h].frame.action = "select"
         /\ sockets[h].state = "connected"
         /\ sockets'[h].frame.busId \in sockets[h].rooms
         /\ sockets'[h].frame.seatNumber
              \notin GetBookedSeats(bookings, sockets'[h].frame.busId, FALSE)
         /\ GrantsOnSeat(h) # {}
         /\ \A g \in GrantsOnSeat(h) :
              g.socketId # h /\ g.at + LockMinutes <= ArrivalTime(h) )
       => sockets'[h].frame.response = "seat-selection-success"]_vars

\* ------------------------------------------------------------------ C14
\* the seats holder h has selected in the session of bus b
SeatsHeldBy(b, h) ==
  IF Has(activeSessions[b].selectedSeats, h)
  THEN { Get(activeSessions[b].selectedSeats, h)[j].seatNumber :
           j \in 1..Len(Get(activeSessions[b].selectedSeats, h)) }
  ELSE {}

\* C14: after the disconnect of a holder has been processed no session holds a
\* soft lock of that holder, also when one of its select-seat handlers was
\* waiting for the booked-seat query at the time of the disconnect.
C14_DisconnectedHoldsNothing ==
  \A h \in Sockets :
    sockets[h].state = "disconnected" => \A b \in Buses : SeatsHeldBy(b, h) = {}

\* ------------------------------------------------------------------ C15
\* a step of h's select-seat handler for a deselect: the arrival, the
\* booked-seat query or the rest of the handler
DeselectActs(h) ==
  /\ sockets'[h].frame.handler = "select-seat"
  /\ sockets'[h].frame.action = "deselect"
  /\ \/ sockets'[h].sent = sockets[h].sent + 1
     \/ sockets[h].frame.pc = "query" /\ sockets'[h].frame.pc = "resume"
     \/ sockets[h].frame.pc = "resume" /\ sockets'[h].frame.pc = "done"

\* C15: a deselect of seat s by a holder that does not own the lock on s
\* leaves the lock records of every other holder as they were (entries, their
\* order and their content, in every session).
C15_DeselectSparesOthers ==
  [][\A h \in Sockets :
       ( /\ DeselectActs(h)
         /\ sockets'[h].frame.seatNumber \notin SeatsHeldBy(sockets'[h].frame.busId, h) )
       => \A b \in Buses :
            /\ activeSessions'[b].active = activeSessions[b].active
            /\ Delete(activeSessions'[b].selectedSeats, h)
                 = Delete(activeSessions[b].selectedSeats, h)]_vars

\* A deselect of a seat was turned down with seat-locked because another holder
\* owns the lock on it, and that holder's selection is in the session.
C15_Witness ==
  \E h \in Sockets, k \in Sockets :
    /\ h # k
    /\ sockets[h].frame.handler = "select-seat"
    /\ sockets[h].frame.action = "deselect"
    /\ sockets[h].frame.pc = "done"
    /\ sockets[h].frame.response = "seat-locked"
    /\ sockets[h].frame.seatNumber \in SeatsHeldBy(sockets[h].frame.busId, k)

\* ------------------------------------------------------------------ C16
\* C16: the seat-status snapshot join-bus sends to a holder lists as
\* selectedByOthers only live soft locks of other holders: no selection of the
\* requester, and none whose expiry has passed when the snapshot is sent.
C16_SnapshotIsLive ==
  [][\A h \in Sockets :
       ( /\ sockets[h].frame.handler = "join-bus"
         /\ sockets[h].frame.pc = "status"
         /\ sockets'[h].frame.response = "seat-status" )
       => \A i \in 1..Len(sockets'[h].frame.selectedByOthers) :
            /\ sockets'[h].frame.selectedByOthers[i].userId # h
            /\ sockets'[h].frame.selectedByOthers[i].expiresAt > now]_vars

\* ------------------------------------------------------------------ C17
\* the shapes createBooking is to reject: passengers and selectedSeats of
\* different lengths, no passenger, no contact information
BadShape(body) ==
  \/ body.passengers # Cardinality(body.selectedSeats)
  \/ body.passengers = 0
  \/ "contactInfo" \notin body.given

\* C17: createBooking rejects every request whose passengers and selected seats
\* differ in number, whose passenger list is empty or whose contact information
\* is missing, writing nothing: no such request is answered with "Booking
\* confirmed".
C17_BadShapeRejected ==
  \A r \in Requests :
    (Finished(r, "createBooking") /\ BadShape(http[r].req))
    => http[r].response # "bookingConfirmed"

\* ------------------------------------------------------------------ C18
\* C18: when createBooking is rejected for a seat conflict, the conflictedSeats
\* of the answer are requested seats only (the requested seats that are in a
\* confirmed or pending booking of the departure).
C18_ConflictsAreRequested ==
  \A r \in Requests :
    (Finished(r, "createBooking") /\ http[r].response = "seatsAlreadyBooked")
    => http[r].detail \subseteq http[r].req.selectedSeats

\* ------------------------------------------------------------------ C19
\* C19: no two bookings of the ledger carry the same reference code (pnr): a
\* generated code that an existing booking carries is never stored a second time.
C19_PnrUnique ==
  \A i \in 1..Len(bookings), j \in 1..Len(bookings) :
    i # j => bookings[i].pnr # bookings[j].pnr

\* ------------------------------------------------------------------ C20
\* the first check of cancelBooking that applies to booking b at time t
CancelVerdict(b, t) ==
  IF b.status = "cancelled" THEN "alreadyCancelled"
  ELSE IF b.departureDate <= t THEN "journeyCompleted"
  ELSE IF \/ ~b.cancellationPolicy.allowed
          \/ b.departureDate - t < b.cancellationPolicy.deadlineHours * MinutesPerHour
  THEN "windowClosed"
  ELSE "proceed"

\* the answer to an unknown reference code is "Booking not found", to a known
\* one it is not
C20_NotFoundFirst(r) ==
  (http[r].pc = "idle" /\ http'[r].kind = "cancelBooking")
  => /\ (http'[r].pc = "done" /\ http'[r].response = "bookingNotFound")
          <=> FindByPnr(bookings, http'[r].req) = 0
     /\ FindByPnr(bookings, http'[r].req) # 0 => http'[r].pc = "checks"

\* the booking that was read is checked in the order of the claim; the answer
\* of a closed window states the deadline of the booking's policy
C20_ChecksInOrder(r) ==
  (http[r].kind = "cancelBooking" /\ http[r].pc = "checks" /\ http'[r].pc # "checks")
  => LET verdict == CancelVerdict(http[r].booking, now)
     IN  /\ verdict = "proceed" <=> http'[r].pc = "transaction"
         /\ verdict \in {"alreadyCancelled", "journeyCompleted"}
              => http'[r].response = verdict
         /\ verdict = "windowClosed"
              => \/ http'[r].response = "cancellationNotAllowed"
                 \/ /\ http'[r].response = "cancellationTooLate"
                    /\ http'[r].detail = http[r].booking.cancellationPolicy.deadlineHours

\* a rejection writes nothing; a request that passed the checks is answered
\* with "Booking cancelled successfully" and its booking is cancelled
C20_RejectOrSucceed(r) ==
  /\ ( /\ http'[r].kind = "cancelBooking"
       /\ http[r].pc # "done" /\ http'[r].pc = "done"
       /\ http'[r].response # "bookingCancelled" )
     => (bookings' = bookings /\ buses' = buses)
  /\ (http[r].kind = "cancelBooking" /\ http[r].pc = "transaction" /\ http'[r].pc = "done")
     => /\ http'[r].response = "bookingCancelled"
        /\ bookings'[FindByPnr(bookings', http[r].req)].status = "cancelled"

\* C20: cancelBooking answers with the first error that applies, in the order
\* not found, already cancelled, journey completed, window closed (cancellation
\* not allowed, or fewer hours left than the deadline, which the answer states);
\* a rejection leaves the bookings and availableSeats unchanged, and a request
\* no check rejects succeeds.  The checks are those of the handler: on the
\* booking as findOne returned it, at the time they run.
C20_CancelChecks ==
  [][\A r \in Requests :
       C20_NotFoundFirst(r) /\ C20_ChecksInOrder(r) /\ C20_RejectOrSucceed(r)]_vars

\* A cancellation 10 hours before the departure was rejected stating the 24-hour
\* deadline and the booking is still confirmed.
C20_Witness ==
  \E r \in Requests :
    /\ Finished(r, "cancelBooking")
    /\ http[r].response = "cancellationTooLate"
    /\ http[r].detail = DeadlineHours
    /\ FindByPnr(bookings, http[r].req) # 0
    /\ bookings[FindByPnr(bookings, http[r].req)].status = "confirmed"
    /\ bookings[FindByPnr(bookings, http[r].req)].departureDate = 10 * MinutesPerHour

\* ------------------------------------------------------------------ C21
\* r's cancelBooking is answered with "Booking cancelled successfully" in this step
CancelSucceeds(r) ==
  /\ http[r].kind = "cancelBooking"
  /\ http[r].pc = "transaction"
  /\ http'[r].response = "bookingCancelled"

\* C21: a successful cancelBooking marks the booking cancelled and, in the same
\* atomic step, increases availableSeats of its bus by the number of seats of
\* the booking, so that the booking's commit is undone: the step takes the
\* booking from not cancelled to cancelled and adds its seat count.
C21_CancelRestoresSeats ==
  [][\A r \in Requests :
       CancelSucceeds(r)
       => LET i == FindByPnr(bookings, http[r].req)
              busId == bookings[i].busId
          IN  /\ bookings[i].status # "cancelled"
              /\ bookings'[i].status = "cancelled"
              /\ buses'[busId].availableSeats
                   = buses[busId].availableSeats + Cardinality(bookings[i].selectedSeats)]_vars

\* ------------------------------------------------------------------ C22
\* the step inserts a confirmed booking of n seats of bus b
InsertsBooking(b, n) ==
  /\ Len(bookings') = Len(bookings) + 1
  /\ bookings'[Len(bookings')].busId = b
  /\ bookings'[Len(bookings')].status = "confirmed"
  /\ Cardinality(bookings'[Len(bookings')].selectedSeats) = n

\* the step takes a booking of n seats of bus b from not cancelled to cancelled
\* and changes no other booking
CancelsBooking(b, n) ==
  /\ Len(bookings') = Len(bookings)
  /\ \E i \in 1..Len(bookings) :
       /\ bookings[i].busId = b
       /\ bookings[i].status # "cancelled"
       /\ bookings'[i].status = "cancelled"
       /\ Cardinality(bookings[i].selectedSeats) = n
       /\ \A j \in 1..Len(bookings) : j # i => bookings'[j] = bookings[j]

\* C22: availableSeats of a departure changes only in an atomic step that also
\* inserts a confirmed booking (the counter falls by its seat count) or takes
\* a booking from not cancelled to cancelled (the counter rises by its seat
\* count); this holds for updateBookingStatus as for the other handlers.
C22_CounterMovesWithLedger ==
  [][\A b \in Buses :
       ( /\ buses[b].exists /\ buses'[b].exists
         /\ buses'[b].availableSeats # buses[b].availableSeats )
       => \/ InsertsBooking(b, buses[b].availableSeats - buses'[b].availableSeats)
          \/ CancelsBooking(b, buses'[b].availableSeats - buses[b].availableSeats)]_vars

\* ------------------------------------------------------------------ C23
\* a step of the timer: the registry changes while no socket sends an event,
\* disconnects or has a handler move on
SweepStep ==
  /\ activeSessions' # activeSessions
  /\ \A h \in Sockets : /\ sockets'[h].state = sockets[h].state
                        /\ sockets'[h].sent = sockets[h].sent
                        /\ sockets'[h].frame.pc = sockets[h].frame.pc

\* the seats of bus b whose lock record the step removes
RemovedSeats(b) ==
  UNION { SeatsHeldBy(b, h) \ SeatsHeldBy(b, h)' : h \in Sockets }

\* C23: when the periodic sweep removes an expired soft lock on a seat of a
\* departure, the seat is named in a seats-released event broadcast to the room
\* of the departure, as it is when a holder disconnects.
C23_SweepBroadcasts ==
  [][\A b \in Buses :
       (SweepStep /\ RemovedSeats(b) # {})
       => \E e \in broadcast' : /\ e.event = "seats-released"
                                /\ e.busId = b
                                /\ RemovedSeats(b) \subseteq e.seats]_vars

\* ------------------------------------------------------------------ C24
\* a step of a soft-lock handler or of the sweep: the registry changes
RegistryStep ==
  \/ activeSessions' # activeSessions
  \/ sockets' # sockets

\* r's createBooking gets past its reads of the ledger exactly when no
\* confirmed or pending booking holds a requested seat and the bus document it
\* read has seats enough
C24_DecidedByLedger(r) ==
  (http[r].kind = "createBooking" /\ http[r].pc = "findBookings" /\ http'[r] # http[r])
  => ( http'[r].pc = "transaction"
       <=> /\ ExistingBookings(bookings, http[r].req.busId, http[r].req.selectedSeats) = {}
           /\ http[r].bus.availableSeats >= http[r].req.passengers )

\* C24: the soft-lock registry and the ledger do not touch: no step of a
\* soft-lock handler (join, select, deselect, disconnect, booking-completed) or
\* of the sweep writes to the bookings, to a bus or to a request's answer, no
\* step of createBooking or cancelBooking writes to the registry, and whether
\* createBooking goes on to commit is decided by the ledger and the bus alone,
\* soft locks or not.
C24_RegistryIsAdvisory ==
  [][/\ RegistryStep => (bookings' = bookings /\ buses' = buses /\ http' = http)
     /\ http' # http => (activeSessions' = activeSessions /\ sockets' = sockets)
     /\ \A r \in Requests : C24_DecidedByLedger(r)]_vars

\* A booking was committed while a holder's soft lock on one of its seats was live.
C24_Witness ==
  \E r \in Requests :
    /\ Finished(r, "createBooking")
    /\ http[r].response = "bookingConfirmed"
    /\ http[r].softLocked

\* ------------------------------------------------------------------ C25
\* C25: a select request is answered with exactly one of
\* seat-selection-success, seat-locked and seat-unavailable, also when the
\* requester already holds the seat: a select-seat handler that has got past
\* the session lookup and the booked-seat query ends with one of the three.
C25_SelectIsAnswered ==
  [][\A h \in Sockets :
       ( /\ sockets[h].frame.handler = "select-seat"
         /\ sockets[h].frame.pc = "resume"
         /\ sockets[h].frame.action = "select"
         /\ sockets'[h].frame.pc = "done" )
       => sockets'[h].frame.response
            \in {"seat-selection-success", "seat-locked", "seat-unavailable"}]_vars

\* ------------------------------------------------------------------ C26
\* The lock records of the session of a bus, one per holder and seat.
LockRecords(sessions, b) ==
  LET m == sessions[b].selectedSeats
  IN  { [socketId |-> m[i].socketId, seatNumber |-> m[i].seats[j].seatNumber,
         selectedAt |-> m[i].seats[j].selectedAt, expiresAt |-> m[i].seats[j].expiresAt] :
          <<i, j>> \in { p \in (1..Len(m)) \X (1..MaxEvents) : p[2] <= Len(m[p[1]].seats) } }

\* The lock records of other holders on a seat that have not expired.
LiveLocksOn(b, h, seatNumber) ==
  { l \in LockRecords(activeSessions, b) :
      l.socketId # h /\ l.seatNumber = seatNumber /\ l.expiresAt > now }

\* C26: a connected holder that has joined a departure and selects a seat
\* that is neither booked nor held by a live lock of another holder is
\* granted the seat, with a lock that expires two minutes after the request.
C26_JoinedHolderIsGranted ==
  [][\A h \in Sockets :
       ( /\ SelectFinishes(h)
         /\ sockets'[h].frame.action = "select"
         /\ sockets[h].state = "connected"
         /\ sockets'[h].state = "connected"
         /\ sockets'[h].frame.busId \in sockets[h].rooms
         /\ sockets'[h].frame.seatNumber
              \notin GetBookedSeats(bookings, sockets'[h].frame.busId, FALSE)
         /\ LiveLocksOn(sockets'[h].frame.busId, h, sockets'[h].frame.seatNumber) = {} )
       => /\ sockets'[h].frame.response = "seat-selection-success"
          /\ \E l \in LockRecords(activeSessions', sockets'[h].frame.busId) :
               /\ l.socketId = h
               /\ l.seatNumber = sockets'[h].frame.seatNumber
               /\ l.expiresAt = ArrivalTime(h) + LockMinutes]_vars

\* ------------------------------------------------------------------ C27
\* The step is none of holder h's own: h sends no event, none of its handlers
\* moves and it does not disconnect.
OthersStep(h) ==
  /\ sockets'[h].state = sockets[h].state
  /\ sockets'[h].sent = sockets[h].sent
  /\ sockets'[h].frame.pc = sockets[h].frame.pc

\* C27: a lock that has not expired, on a seat that is not booked, is removed
\* by no step other than one of its holder's own (its deselect, its
\* disconnect): neither the sweep nor a request of another client removes it.
C27_OnlyHolderReleases ==
  [][\A b \in Buses : \A l \in LockRecords(activeSessions, b) :
       ( /\ l.socketId \in Sockets
         /\ l.expiresAt > now
         /\ l.seatNumber \notin GetBookedSeats(bookings, b, FALSE)
         /\ OthersStep(l.socketId) )
       => l \in LockRecords(activeSessions', b)]_vars

\* ------------------------------------------------------------------ C28
\* The holders with a lock record on the seat that has not expired.
LiveHolders(b, seatNumber) ==
  { l.socketId : l \in { x \in LockRecords(activeSessions, b) :
                           x.seatNumber = seatNumber /\ x.expiresAt > now } }

\* C28: in the registry, for each departure and seat, at most one holder has a
\* lock record that has not expired.
C28_OneLiveHolder ==
  \A b \in Buses : \A l \in LockRecords(activeSessions, b) :
    Cardinality(LiveHolders(b, l.seatNumber)) <= 1

\* The registry with the lock of an earlier holder: a third client that has
\* connected, joined the departure and been granted seat 1 at minute 0, and
\* that stays connected and sends nothing more.
EarlierHolder == 0

InitEarlierHolder ==
  /\ \E bs \in GeneratedBuses : buses = bs /\ bookings = <<>>
  /\ \A b \in Buses : buses[b].departureTime = DeadlineHours * MinutesPerHour + 2
  /\ http = [r \in Requests |-> Idle]
  /\ now = 0
  /\ activeSessions =
       [b \in Buses |->
          [NewSession EXCEPT !.selectedSeats =
             Set(<<>>, EarlierHolder, <<Selection(1, 0)>>)]]
  /\ sockets = [h \in Sockets |->
                  [state |-> "new", sent |-> 0, rooms |-> {}, frame |-> NoHandler]]
  /\ granted = {}
  /\ broadcast = {}

\* The two later holders select and deselect in the session the earlier holder
\* has left open, disconnect, and the sweep and the clock run.
NextThreeHolders ==
  \/ \E h \in Sockets : Connect(h) \/ selectSeat(h) \/ Disconnect(h)
  \/ cleanupExpiredSelections
  \/ Tick

SpecThreeHolders == InitEarlierHolder /\ [][NextThreeHolders]_vars

\* ------------------------------------------------------------------ C29
\* Holder h's select-seat for a seat it holds in the registry takes its last step.
ReselectFinishes(h) ==
  /\ sockets[h].frame.handler = "select-seat"
  /\ sockets[h].frame.pc = "resume"
  /\ sockets[h].frame.action = "select"
  /\ sockets'[h].frame.pc = "done"
  /\ sockets[h].frame.seatNumber \in SeatsHeldBy(sockets[h].frame.busId, h)

\* C29: a select by a holder of a seat it already holds leaves the holder's
\* lock records as they are: the record keeps the time it was acquired and the
\* time it expires, and no second record is added.
C29_ReselectKeepsLock ==
  [][\A h \in Sockets :
       ReselectFinishes(h)
       => /\ Has(activeSessions'[sockets[h].frame.busId].selectedSeats, h)
          /\ Get(activeSessions'[sockets[h].frame.busId].selectedSeats, h)
               = Get(activeSessions[sockets[h].frame.busId].selectedSeats, h)]_vars

\* A holder has selected, after the clock moved on, a seat it still holds
\* with the lock it acquired before.
C29_Witness ==
  \E h \in Sockets :
    /\ sockets[h].frame.handler = "select-seat"
    /\ sockets[h].frame.pc = "done"
    /\ sockets[h].frame.action = "select"
    /\ sockets[h].frame.response = "none"
    /\ \E l \in LockRecords(activeSessions, sockets[h].frame.busId) :
         /\ l.socketId = h
         /\ l.seatNumber = sockets[h].frame.seatNumber
         /\ l.selectedAt < now

\* ------------------------------------------------------------------ C30
\* C30: a run of cleanupExpiredSelections that changes the registry removes,
\* in every departure, exactly the lock records whose expiresAt is not later
\* than the current time; every other record stays as it was.
C30_SweepRemovesExpired ==
  [][SweepStep
     => \A b \in Buses :
          LockRecords(activeSessions', b)
            = { l \in LockRecords(activeSessions, b) : l.expiresAt > now }]_vars

\* The sweep has removed the expired lock of one holder and kept the unexpired
\* lock of another: the first holder joined, was granted a seat with its only
\* select and is still connected, nobody sent booking-completed, and its
\* record is gone while the other holder's is there.
C30_Witness ==
  \E a \in Sockets, h \in Sockets, b \in Buses :
    /\ a # h
    /\ sockets[a].state = "connected"
    /\ sockets[a].sent = 2
    /\ b \in sockets[a].rooms
    /\ sockets[a].frame.handler = "select-seat"
    /\ sockets[a].frame.busId = b
    /\ sockets[a].frame.action = "select"
    /\ sockets[a].frame.pc = "done"
    /\ sockets[a].frame.response = "seat-selection-success"
    /\ SeatsHeldBy(b, a) = {}
    /\ sockets[h].sent = 1
    /\ sockets[h].frame.handler = "select-seat"
    /\ sockets[h].frame.pc = "done"
    /\ \E l \in LockRecords(activeSessions, b) : l.socketId = h /\ l.expiresAt > now

\* ------------------------------------------------------------------ C31
\* C31: seat-deselected for a seat of a departure is broadcast only by a step
\* in which a deselect removes a lock record its requester held on that seat.
C31_DeselectedMeansReleased ==
  [][\A e \in broadcast' :
       e.event = "seat-deselected"
       => \E h \in Sockets :
            /\ DeselectActs(h)
            /\ sockets'[h].frame.busId = e.busId
            /\ e.seats \subseteq SeatsHeldBy(e.busId, h)
            /\ e.seats \cap SeatsHeldBy(e.busId, h)' = {}]_vars

\* ------------------------------------------------------------------ C32
\* C32: the timeLeft of a seat-locked response is between 1 and 120 seconds.
C32_TimeLeftInRange ==
  \A h \in Sockets :
    ( /\ sockets[h].frame.handler = "select-seat"
      /\ sockets[h].frame.pc = "done"
      /\ sockets[h].frame.response = "seat-locked" )
    => sockets[h].frame.timeLeft \in 1..(LockMinutes * SecondsPerMinute)

\* ------------------------------------------------------------------ C33
\* The policy snapshots a booking document may carry.
PolicyDeadlines == {0, DeadlineHours}
PolicyPercentages == {0, 50, RefundPercentage, 100}

OnePassengerBody ==
  [given |-> BodyFields, busId |-> "bus1", passengers |-> 1, selectedSeats |-> {1}]

\* The database holds one confirmed booking, of one or of eight passengers,
\* with any of the policy snapshots; clients cancel it while the clock runs.
InitPolicies ==
  /\ \E bs \in GeneratedBuses, body \in {OnePassengerBody, EarlierBody},
        d \in PolicyDeadlines, p \in PolicyPercentages :
       LET booking == [NewBooking(body, bs[body.busId], "PNR1") EXCEPT
                         !.cancellationPolicy.deadlineHours = d,
                         !.cancellationPolicy.refundPercentage = p]
           t == CommitTransaction(bs, <<>>, booking, FALSE)
       IN  buses = t.buses /\ bookings = t.bookings
  /\ http = [r \in Requests |-> Idle]
  /\ now = 0
  /\ activeSessions = [b \in Buses |-> NoSession]
  /\ sockets = [h \in Sockets |->
                  [state |-> "new", sent |-> 0, rooms |-> {}, frame |-> NoHandler]]
  /\ granted = {}
  /\ broadcast = {}

NextPolicies ==
  \/ \E r \in Requests : cancelBooking(r)
  \/ Tick

SpecPolicies == InitPolicies /\ [][NextPolicies]_vars

\* round(totalPrice * refundPercentage / 100), a half upwards
RoundedShare(totalPrice, percentage) == (2 * totalPrice * percentage + 100) \div 200

\* the checks let a booking that is confirmed, allowed to be cancelled and not
\* yet departed pass exactly when the deadline it records is kept
C33_OwnDeadline(r) ==
  ( /\ http[r].kind = "cancelBooking" /\ http[r].pc = "checks" /\ http'[r].pc # "checks"
    /\ http[r].booking.status # "cancelled"
    /\ http[r].booking.departureDate > now
    /\ http[r].booking.cancellationPolicy.allowed )
  => ( http'[r].pc = "transaction"
       <=> http[r].booking.departureDate - now
             >= http[r].booking.cancellationPolicy.deadlineHours * MinutesPerHour )

\* the refund a successful cancellation names is the share the booking records
C33_OwnRefund(r) ==
  ( /\ http[r].kind = "cancelBooking" /\ http[r].pc = "transaction"
    /\ http'[r].pc = "done" /\ http'[r].response = "bookingCancelled" )
  => http'[r].detail = RoundedShare(http[r].booking.totalPrice,
                                    http[r].booking.cancellationPolicy.refundPercentage)

\* C33: for every booking and every policy snapshot with refundPercentage in
\* 0..100 and deadlineHours >= 0, 0 included, cancelBooking applies the
\* deadline the booking records and a successful cancellation returns
\* round(totalPrice * refundPercentage / 100).
C33_PolicySnapshotApplied ==
  [][\A r \in Requests : C33_OwnDeadline(r) /\ C33_OwnRefund(r)]_vars

\* ------------------------------------------------------------------ C34
\* getBusSeats (busController.js): the seat numbers the seat map marks booked:
\* the numbers above totalSeats - availableSeats of the layout,
\* and the seats of the bookings of the bus with status "confirmed".
GetBusSeats(bus, coll, busId) ==
  LET totalSeats == OrDefault(bus.totalSeats, TotalSeatsStandard)
      availableSeats == OrDefault(bus.availableSeats, totalSeats)
  IN  { n \in 1..totalSeats : n > totalSeats - availableSeats }
      \cup UNION { coll[i].selectedSeats :
                     i \in { k \in 1..Len(coll) : coll[k].busId = busId
                                                  /\ coll[k].status = "confirmed" } }

\* C34: every view classifies a seat of a pending booking of a departure as
\* booked: the conflict check of createBooking, getBookedSeats (the booked
\* check of select-seat and the snapshot of join-bus) and the seat map of
\* getBusSeats.
C34_PendingIsBookedEverywhere ==
  \A i \in 1..Len(bookings) :
    (bookings[i].status = "pending" /\ buses[bookings[i].busId].exists)
    => \A s \in bookings[i].selectedSeats :
         /\ ExistingBookings(bookings, bookings[i].busId, {s}) # {}
         /\ s \in GetBookedSeats(bookings, bookings[i].busId, FALSE)
         /\ s \in GetBusSeats(buses[bookings[i].busId], bookings, bookings[i].busId)

\* ------------------------------------------------------------------ C35
NonCancelledBookings(b) ==
  { i \in 1..Len(bookings) : bookings[i].busId = b /\ bookings[i].status # "cancelled" }

\* The calls so far ran one after the other and are all answered, and every
\* booking names as many passengers as seats.
CallsInSequence ==
  /\ \A r \in Requests : ~InFlight(r)
  /\ \A r, q \in Requests : r # q => ~Concurrent(r, q)
  /\ \A i \in 1..Len(bookings) :
       bookings[i].passengers = Cardinality(bookings[i].selectedSeats)

\* C35: after any sequence of createBooking, cancelBooking and
\* updateBookingStatus calls, the bookings of a departure that are not
\* cancelled have pairwise disjoint seats, and availableSeats is the number the
\* departure was generated with minus the seats of those bookings.
C35_LedgerAfterStatusChanges ==
  CallsInSequence
  => \A b \in Buses :
       buses[b].exists
       => /\ \A i, j \in NonCancelledBookings(b) :
               i # j => bookings[i].selectedSeats \cap bookings[j].selectedSeats = {}
          /\ buses[b].availableSeats
               = MinGeneratedAvailable - SeatsOf(bookings, NonCancelledBookings(b))

\* ------------------------------------------------------------------ C36
\* C36: every confirmed or pending booking refers to a departure that exists:
\* deleteBus removes no departure that has such a booking, also when a
\* createBooking for the departure runs at the same time.
C36_BookedDepartureExists ==
  \A i \in 1..Len(bookings) :
    bookings[i].status \in ActiveStatuses => buses[bookings[i].busId].exists

====
